---- MODULE Spec2Model ----
(***************************************************************************)
(* The peer-to-peer file sharing session of nextjs-katana: the PeerProvider *)
(* of src/components/ReceiveFilesSection.tsx lines 357-878 (the chunked     *)
(* transfer engine), run by two peers over PeerJS data connections.         *)
(*                                                                          *)
(* Every PeerJS callback, timer callback, FileReader callback and exported  *)
(* operation is one action.  React state updates are taken to be visible to *)
(* the next callback (a render happens between two events).                 *)
(***************************************************************************)
EXTENDS Integers, Sequences, FiniteSets, TLC

\* ------------------------------------------------------------------ bounds
\* Largest file size in bytes.
MaxFileSize == 5
\* Number of file ids a peer generates.
MaxFiles == 2
\* Number of file ids named in requestFiles calls, all calls together.
MaxRequested == 2
\* Number of data connections created.
MaxConns == 2

\* --------------------------------------------------------- program constants
\* CHUNK_SIZE of a mobile and of a desktop device, in units of 16 KiB.
MobileChunkSize == 2
DesktopChunkSize == 4
\* CHUNK_DELAY of a mobile and of a desktop device, in units of 10 ms.
MobileChunkDelay == 1
DesktopChunkDelay == 0

Peers == {"A", "B"}
Other(p) == CHOOSE q \in Peers : q # p
\* null of a string-valued state (peerId, remotePeerId)
Null == "null"
\* null of connectionRef: connections are numbered from 1
NoConn == 0

\* The peers whose user adds and removes files, and those whose user downloads.
Offerers == {"A"}
Requesters == {"B"}

VARIABLES
    isMobile,          \* [Peers -> BOOLEAN]: isMobileDevice(), fixed at module load
    peerId,            \* useState peerId
    remotePeerId,      \* useState remotePeerId
    status,            \* useState status
    offeredFiles,      \* useState offeredFiles: sequence of FileInfo
    remoteFiles,       \* useState remoteFiles: sequence of FileInfo
    filesMap,          \* filesMapRef: file id -> File
    downloadingFiles,  \* downloadingFilesRef: file id -> receive state
    connectionRef,     \* connectionRef.current
    conns,             \* the DataConnection objects PeerJS has created
    tasks,             \* the send loops started by 'accept' (closures of sendNextChunk)
    sink,              \* the files handed to the browser for download
    issued,            \* number of ids generateFileId has returned
    requested,         \* history: the requestFiles calls made so far, <<peer, ids>>
    started,           \* history: the send loops whose fileStart a peer has handled
    seen,              \* history: the cases of handling a peer has been through
    greeted            \* history: the connections on which a peer has handled a hello

vars == <<isMobile, peerId, remotePeerId, status, offeredFiles, remoteFiles, filesMap,
          downloadingFiles, connectionRef, conns, tasks, sink, issued, requested,
          started, seen, greeted>>

\* ----------------------------------------------------------------- helpers
Min(a, b) == IF a < b THEN a ELSE b

MapPut(m, k, v) == [x \in DOMAIN m \cup {k} |-> IF x = k THEN v ELSE m[x]]
MapDel(m, k) == [x \in DOMAIN m \ {k} |-> m[x]]
EmptyMap == [x \in {} |-> 0]

\* Mutant: the first entry is removed, whatever its id.
DropFirst(fs, fileId) == IF fs = <<>> THEN <<>> ELSE Tail(fs)
RECURSIVE SelectIds(_, _)
\* prev.filter(f => f.id !== fileId)
SelectIds(fs, fileId) ==
    IF fs = <<>> THEN <<>>
    ELSE IF Head(fs).id = fileId THEN SelectIds(Tail(fs), fileId)
         ELSE <<Head(fs)>> \o SelectIds(Tail(fs), fileId)

\* Math.ceil(size / chunkSize)
Ceil(size, chunkSize) == (size + chunkSize - 1) \div chunkSize

CHUNK_SIZE(p) == IF isMobile[p] THEN MobileChunkSize ELSE DesktopChunkSize
CHUNK_DELAY(p) == IF isMobile[p] THEN MobileChunkDelay ELSE DesktopChunkDelay

\* file.slice(start, end) of a Blob: both ends clamped to the size
Slice(data, start, end) == SubSeq(data, Min(start, Len(data)) + 1, Min(end, Len(data)))

\* ------------------------------------------------------------ input files
Ramp(s) == [i \in 1..s |-> i]
Flat(s) == [i \in 1..s |-> 7]
\* A File the user may pick: a name (its dot-separated parts) and its bytes.
FileInputs ==
    {[name |-> <<"a", "txt">>, data |-> Ramp(s)] : s \in 0..MaxFileSize}
    \cup {[name |-> <<"b">>, data |-> Flat(MaxFileSize)]}

\* ---------------------------------------------------------------- messages
Hello(id) == [type |-> "hello", peerId |-> id]
Offer(f) == [type |-> "offer", file |-> [id |-> f.id, name |-> f.name, size |-> f.size]]
Unoffer(fileId) == [type |-> "unoffer", fileId |-> fileId]
\* Mutant: the ids in the opposite order.
AcceptReversed(fileIds) ==
    [type |-> "accept",
     fileIds |-> [i \in 1..Len(fileIds) |-> fileIds[Len(fileIds) + 1 - i]]]
Accept(fileIds) == [type |-> "accept", fileIds |-> fileIds]
\* task is not on the wire: it names the send loop a message comes from
FileStart(fileId, name, size, totalChunks, task) ==
    [type |-> "fileStart", fileId |-> fileId, name |-> name, size |-> size,
     totalChunks |-> totalChunks, task |-> task]
FileChunk(fileId, chunkIndex, data, isLast, task) ==
    [type |-> "fileChunk", fileId |-> fileId, chunkIndex |-> chunkIndex, data |-> data,
     isLast |-> isLast, task |-> task]

\* -------------------------------------------------------------- connections
FreshEnd == [state |-> "none", timer |-> FALSE, inbox |-> <<>>]
FreshConn == [p \in Peers |-> FreshEnd]

IsOpen(cs, c, p) == c # NoConn /\ cs[c][p].state = "open"

\* Mutant: with connectionRef.current not open the message goes out on the latest
\* connection instead.
sendMessageLatest(cs, p, ref, message) ==
    IF IsOpen(cs, ref, p) /\ cs[ref][Other(p)].state # "closed"
    THEN [cs EXCEPT ![ref][Other(p)].inbox = Append(@, message)]
    ELSE IF ~IsOpen(cs, ref, p) /\ cs # <<>> /\ cs[Len(cs)][Other(p)].state # "closed"
         THEN [cs EXCEPT ![Len(cs)][Other(p)].inbox = Append(@, message)]
         ELSE cs
\* sendMessage: on connectionRef.current when it is open, else dropped.  A message
\* sent to an end that has closed is lost with the channel.
sendMessage(cs, p, ref, message) ==
    IF IsOpen(cs, ref, p) /\ cs[ref][Other(p)].state # "closed"
    THEN [cs EXCEPT ![ref][Other(p)].inbox = Append(@, message)]
    ELSE cs

RECURSIVE sendAll(_, _, _, _)
sendAll(cs, p, ref, messages) ==
    IF messages = <<>> THEN cs
    ELSE sendAll(sendMessage(cs, p, ref, Head(messages)), p, ref, Tail(messages))

RECURSIVE OffersOf(_)
OffersOf(fs) == IF fs = <<>> THEN <<>> ELSE <<Offer(Head(fs))>> \o OffersOf(Tail(fs))

Init ==
    /\ isMobile \in {m \in [Peers -> BOOLEAN] : \A p \in Peers \ Offerers : ~m[p]}
    /\ peerId = [p \in Peers |-> Null]
    /\ remotePeerId = [p \in Peers |-> Null]
    /\ status = [p \in Peers |-> "disconnected"]
    /\ offeredFiles = [p \in Peers |-> <<>>]
    /\ remoteFiles = [p \in Peers |-> <<>>]
    /\ filesMap = [p \in Peers |-> EmptyMap]
    /\ downloadingFiles = [p \in Peers |-> EmptyMap]
    /\ connectionRef = [p \in Peers |-> NoConn]
    /\ conns = <<>>
    /\ tasks = [p \in Peers |-> <<>>]
    /\ sink = [p \in Peers |-> <<>>]
    /\ issued = [p \in Peers |-> 0]
    /\ requested = <<>>
    /\ started = [p \in Peers |-> {}]
    /\ seen = [p \in Peers |-> {}]
    /\ greeted = [p \in Peers |-> {}]

\* ------------------------------------------------------------ transfer engine
\* Mutant: Math.floor in place of Math.ceil.
TotalChunksFloor(size, chunkSize) == size \div chunkSize
\* Math.ceil(file.size / CHUNK_SIZE)
TotalChunks(size, chunkSize) == Ceil(size, chunkSize)

\* Mutant: > in place of >=.
IsLastStrict(offset, chunkSize, size) == offset + chunkSize > size
\* const isLast = offset + CHUNK_SIZE >= file.size
IsLast(offset, chunkSize, size) == offset + chunkSize >= size

\* Mutant: the slice ends one byte early.
ChunkDataShort(data, offset, chunkSize) == Slice(data, offset, offset + chunkSize - 1)
\* The bytes FileReader yields for file.slice(offset, offset + CHUNK_SIZE)
ChunkData(data, offset, chunkSize) == Slice(data, offset, offset + chunkSize)

\* Mutant: the loop over the ids stops at the first id filesMapRef does not know.
RECURSIVE StartTasksUntilAbsent(_, _, _)
StartTasksUntilAbsent(p, fileIds, acc) ==
    IF fileIds = <<>> \/ Head(fileIds) \notin DOMAIN filesMap[p] THEN acc
    ELSE LET fileId == Head(fileIds)
             file == filesMap[p][fileId]
             t == Len(acc.tasks) + 1
             start == FileStart(fileId, file.name, Len(file.data),
                                Ceil(Len(file.data), CHUNK_SIZE(p)), <<p, t>>)
             task == [fileId |-> fileId, file |-> file, offset |-> 0,
                      chunkIndex |-> 0, phase |-> "reading", sent |-> <<start>>,
                           via |-> connectionRef[p]]
         IN StartTasksUntilAbsent(p, Tail(fileIds),
                                  [tasks |-> Append(acc.tasks, task),
                                   messages |-> Append(acc.messages, start)])

\* The body of message.fileIds.forEach in case 'accept': for every id of the
\* accept that filesMapRef knows, in order, send fileStart and start a send loop
\* (sendNextChunk has started the first read when the handler returns).
\* acc = [tasks, messages].  sent and via are not program state: the messages the
\* loop has handed to sendMessage, and the connection its fileStart was sent on.
RECURSIVE StartTasks(_, _, _)
StartTasks(p, fileIds, acc) ==
    IF fileIds = <<>> THEN acc
    ELSE LET fileId == Head(fileIds) IN
         IF fileId \in DOMAIN filesMap[p]
         THEN LET file == filesMap[p][fileId]
                  t == Len(acc.tasks) + 1
                  start == FileStart(fileId, file.name, Len(file.data),
                                     TotalChunks(Len(file.data), CHUNK_SIZE(p)), <<p, t>>)
                  task == [fileId |-> fileId, file |-> file, offset |-> 0,
                           chunkIndex |-> 0, phase |-> "reading", sent |-> <<start>>,
                           via |-> connectionRef[p]]
              IN StartTasks(p, Tail(fileIds),
                            [tasks |-> Append(acc.tasks, task),
                             messages |-> Append(acc.messages, start)])
         ELSE StartTasks(p, Tail(fileIds), acc)

\* new Array(totalChunks): a JavaScript array, its length and its filled indices
NewArray(n) == [len |-> n, at |-> EmptyMap]
\* chunks[i] = data: an index at or past the length grows the array
ArraySet(a, i, data) ==
    [len |-> IF i + 1 > a.len THEN i + 1 ELSE a.len, at |-> MapPut(a.at, i, data)]

\* Combine all chunks: the filled slots in ascending index order, a hole adds nothing
RECURSIVE AssembleFrom(_, _)
AssembleFrom(a, i) ==
    IF i >= a.len THEN <<>>
    ELSE (IF i \in DOMAIN a.at THEN a.at[i] ELSE <<>>) \o AssembleFrom(a, i + 1)
Assemble(a) == AssembleFrom(a, 0)

\* Mutant: completion on isLast alone.
IsCompleteOnLast(message, info) == message.isLast
\* message.isLast || downloadInfo.receivedChunks === downloadInfo.totalChunks
IsComplete(message, info) == message.isLast \/ info.receivedChunks = info.totalChunks

\* getMimeType: the lower-case extension looked up in the static table
MimeTable ==
    [ext \in {"jpg", "jpeg", "png", "gif", "webp", "svg", "mp4", "avi", "mov", "wmv",
              "flv", "webm", "mp3", "wav", "flac", "aac", "ogg", "pdf", "doc", "docx",
              "txt", "rtf", "zip", "rar", "7z", "tar", "gz", "json", "xml", "html",
              "css", "js"} |->
        CASE ext \in {"jpg", "jpeg"} -> "image/jpeg"
          [] ext = "png" -> "image/png"
          [] ext = "gif" -> "image/gif"
          [] ext = "webp" -> "image/webp"
          [] ext = "svg" -> "image/svg+xml"
          [] ext = "mp4" -> "video/mp4"
          [] ext = "avi" -> "video/x-msvideo"
          [] ext = "mov" -> "video/quicktime"
          [] ext = "wmv" -> "video/x-ms-wmv"
          [] ext = "flv" -> "video/x-flv"
          [] ext = "webm" -> "video/webm"
          [] ext = "mp3" -> "audio/mpeg"
          [] ext = "wav" -> "audio/wav"
          [] ext = "flac" -> "audio/flac"
          [] ext = "aac" -> "audio/aac"
          [] ext = "ogg" -> "audio/ogg"
          [] ext = "pdf" -> "application/pdf"
          [] ext = "doc" -> "application/msword"
          [] ext = "docx" ->
               "application/vnd.openxmlformats-officedocument.wordprocessingml.document"
          [] ext = "txt" -> "text/plain"
          [] ext = "rtf" -> "application/rtf"
          [] ext = "zip" -> "application/zip"
          [] ext = "rar" -> "application/x-rar-compressed"
          [] ext = "7z" -> "application/x-7z-compressed"
          [] ext = "tar" -> "application/x-tar"
          [] ext = "gz" -> "application/gzip"
          [] ext = "json" -> "application/json"
          [] ext = "xml" -> "application/xml"
          [] ext = "html" -> "text/html"
          [] ext = "css" -> "text/css"
          [] OTHER -> "application/javascript"]
getMimeType(name) ==
    LET ext == name[Len(name)] IN
    IF ext \in DOMAIN MimeTable THEN MimeTable[ext] ELSE "application/octet-stream"

\* The Blob and file name given to the browser (a.download, a.click()); fileId is
\* not part of the hand-off, it records which transfer the hand-off ends.
HandOff(fileId, name, data) ==
    [fileId |-> fileId, name |-> name, data |-> data, type |-> getMimeType(name)]

\* Mutant: the offer is appended whether or not its id is known.
AddRemoteAlways(prev, file) == Append(prev, file)
\* The updater of setRemoteFiles in case 'offer'
AddRemote(prev, file) ==
    IF \E i \in 1..Len(prev) : prev[i].id = file.id THEN prev ELSE Append(prev, file)

\* Mutant: a chunk for an id without transfer state opens an empty state for it.
GetOrOpen(files, fileId) ==
    IF fileId \in DOMAIN files THEN <<files[fileId]>>
    ELSE <<[chunks |-> NewArray(0), name |-> <<"unnamed">>, size |-> 0,
            receivedChunks |-> 0, totalChunks |-> 0]>>
\* downloadingFilesRef.current.get(message.fileId): the state in a one-element
\* sequence, the empty sequence for undefined
Get(files, fileId) == IF fileId \in DOMAIN files THEN <<files[fileId]>> ELSE <<>>

\* The state case 'fileStart' builds: new Array(totalChunks), no chunk received
NewDownload(message) ==
    [chunks |-> NewArray(message.totalChunks),
     name |-> message.name,
     size |-> message.size,
     receivedChunks |-> 0,
     totalChunks |-> message.totalChunks]
\* Mutant: a fileStart for an id that has transfer state keeps that state.
StartDownloadKeep(files, message) ==
    IF message.fileId \in DOMAIN files THEN files
    ELSE MapPut(files, message.fileId, NewDownload(message))
\* Mutant: the receiver holds one transfer state, a fileStart replaces it.
StartDownloadSingle(files, message) ==
    MapPut(EmptyMap, message.fileId, NewDownload(message))
\* downloadingFilesRef.current.set(message.fileId, {...})
StartDownload(files, message) == MapPut(files, message.fileId, NewDownload(message))

\* The types of ProtocolMessage, the cases of the switch in handleMessage
MessageTypes == {"hello", "offer", "unoffer", "accept", "fileStart", "fileChunk",
                 "fileContent"}

\* handleMessage(data) at peer p, with cs the connections after the message
\* was taken off its channel.
handleMessage(p, message, cs) ==
    CASE message.type = "hello" ->
            /\ remotePeerId' = [remotePeerId EXCEPT ![p] = message.peerId]
            /\ conns' = cs
            /\ UNCHANGED <<remoteFiles, tasks, downloadingFiles, sink>>
      [] message.type = "offer" ->
            /\ remoteFiles' = [remoteFiles EXCEPT ![p] = AddRemote(@, message.file)]
            /\ conns' = cs
            /\ UNCHANGED <<remotePeerId, tasks, downloadingFiles, sink>>
      [] message.type = "unoffer" ->
            /\ remoteFiles' = [remoteFiles EXCEPT ![p] = SelectIds(@, message.fileId)]
            /\ conns' = cs
            /\ UNCHANGED <<remotePeerId, tasks, downloadingFiles, sink>>
      [] message.type = "accept" ->
            LET loops == StartTasks(p, message.fileIds,
                                      [tasks |-> tasks[p], messages |-> <<>>])
            IN /\ tasks' = [tasks EXCEPT ![p] = loops.tasks]
               /\ conns' = sendAll(cs, p, connectionRef[p], loops.messages)
               /\ UNCHANGED <<remotePeerId, remoteFiles, downloadingFiles, sink>>
      [] message.type = "fileStart" ->
            /\ downloadingFiles' =
                   [downloadingFiles EXCEPT ![p] = StartDownload(@, message)]
            /\ conns' = cs
            /\ UNCHANGED <<remotePeerId, remoteFiles, tasks, sink>>
      [] message.type = "fileChunk" ->
            IF Get(downloadingFiles[p], message.fileId) # <<>>
            THEN LET old == Get(downloadingFiles[p], message.fileId)[1]
                     info == [old EXCEPT
                                 !.chunks = ArraySet(@, message.chunkIndex, message.data),
                                 !.receivedChunks = @ + 1]
                 IN IF IsComplete(message, info)
                    THEN /\ sink' = [sink EXCEPT ![p] =
                                        Append(@, HandOff(message.fileId, info.name,
                                                          Assemble(info.chunks)))]
                         /\ downloadingFiles' =
                                [downloadingFiles EXCEPT ![p] = MapDel(@, message.fileId)]
                         /\ conns' = cs
                         /\ UNCHANGED <<remotePeerId, remoteFiles, tasks>>
                    ELSE /\ downloadingFiles' =
                                [downloadingFiles EXCEPT ![p] =
                                    MapPut(@, message.fileId, info)]
                         /\ conns' = cs
                         /\ UNCHANGED <<remotePeerId, remoteFiles, tasks, sink>>
            ELSE /\ conns' = cs
                 /\ UNCHANGED <<remotePeerId, remoteFiles, tasks, downloadingFiles, sink>>
      [] message.type = "fileContent" ->
            /\ sink' = [sink EXCEPT ![p] =
                           Append(@, HandOff(message.fileId, message.name, message.data))]
            /\ conns' = cs
            /\ UNCHANGED <<remotePeerId, remoteFiles, tasks, downloadingFiles>>
      [] OTHER ->
            /\ conns' = cs
            /\ UNCHANGED <<remotePeerId, remoteFiles, tasks, downloadingFiles, sink>>

\* The case of its handler a message falls into at peer p (history only).
CaseOf(p, message) ==
    CASE message.type = "offer" ->
            IF \E i \in 1..Len(remoteFiles[p]) : remoteFiles[p][i].id = message.file.id
            THEN {"offer of a known id"} ELSE {}
      [] message.type = "unoffer" ->
            IF \E i \in 1..Len(remoteFiles[p]) : remoteFiles[p][i].id = message.fileId
            THEN IF Len(remoteFiles[p]) > 1 THEN {"unoffer of one id among others"}
                 ELSE {"unoffer of the only id"}
            ELSE {"unoffer of an unknown id"}
      [] message.type = "accept" ->
            IF \E k \in 1..Len(message.fileIds) : message.fileIds[k] \notin DOMAIN filesMap[p]
            THEN {"accept of an absent id"} ELSE {}
      [] message.type = "fileChunk" ->
            IF message.fileId \notin DOMAIN downloadingFiles[p]
            THEN {"fileChunk without transfer state"} ELSE {}
      [] message.type = "fileStart" ->
            IF /\ message.fileId \in DOMAIN downloadingFiles[p]
               /\ downloadingFiles[p][message.fileId].receivedChunks > 0
            THEN {"fileStart over received chunks"} ELSE {}
      [] message.type \notin MessageTypes -> {"message of an unknown type"}
      [] OTHER -> {}

\* conn.on('data') for the i-th message queued on connection c at peer p: it is
\* handed to handleMessage, whether or not connectionRef still names c.
Deliver(c, p, i) ==
    /\ conns[c][p].state = "open"
    /\ i \in 1..Len(conns[c][p].inbox)
    /\ LET inbox == conns[c][p].inbox
           message == inbox[i]
       IN /\ handleMessage(p, message,
                           [conns EXCEPT ![c][p].inbox =
                               SubSeq(inbox, 1, i - 1) \o SubSeq(inbox, i + 1, Len(inbox))])
          /\ started' = IF message.type = "fileStart"
                        THEN [started EXCEPT ![p] = @ \cup {message.task}]
                        ELSE started
          /\ seen' = [seen EXCEPT ![p] = @ \cup CaseOf(p, message)]
          /\ greeted' = IF message.type = "hello"
                        THEN [greeted EXCEPT ![p] = @ \cup {c}]
                        ELSE greeted
    /\ UNCHANGED <<isMobile, peerId, status, offeredFiles, filesMap, connectionRef,
                   issued, requested>>

\* The ordered channel: the adapter delivers the oldest message.
ConnData(c, p) == Deliver(c, p, 1)

\* handleMessage takes whatever the channel delivers (data: unknown, cast to
\* ProtocolMessage): a remote end that is not this program sends an object whose
\* type is none of the protocol's.  One such message is in flight at a time.
ForeignMessage == [type |-> "ping"]
ForeignData(c, p) ==
    /\ conns[c][p].state = "open"
    /\ \A i \in 1..Len(conns[c][p].inbox) : conns[c][p].inbox[i].type \in MessageTypes
    /\ conns' = [conns EXCEPT ![c][p].inbox = Append(@, ForeignMessage)]
    /\ UNCHANGED <<isMobile, peerId, remotePeerId, status, offeredFiles, remoteFiles,
                   filesMap, downloadingFiles, connectionRef, tasks, sink, issued,
                   requested, started, seen, greeted>>

\* The remote end runs the whole-file engine: the reader.onload of its case
\* 'accept' sends fileContent{fileId, name, data} for a file p lists.  One such
\* message is in flight at a time, and p is sent at most MaxRequested files.
FileContent(fileId, name, data) ==
    [type |-> "fileContent", fileId |-> fileId, name |-> name, data |-> data]
LegacyData(c, p) ==
    /\ conns[c][p].state = "open"
    /\ Len(sink[p]) < MaxRequested
    /\ \A i \in 1..Len(conns[c][p].inbox) : conns[c][p].inbox[i].type # "fileContent"
    /\ \E i \in 1..Len(remoteFiles[p]) : \E f \in FileInputs :
           /\ f.name = remoteFiles[p][i].name
           /\ Len(f.data) = remoteFiles[p][i].size
           /\ conns' = [conns EXCEPT ![c][p].inbox =
                            Append(@, FileContent(remoteFiles[p][i].id, f.name, f.data))]
    /\ UNCHANGED <<isMobile, peerId, remotePeerId, status, offeredFiles, remoteFiles,
                   filesMap, downloadingFiles, connectionRef, tasks, sink, issued,
                   requested, started, seen, greeted>>

\* A channel that breaks its order guarantee within one transfer: a fileChunk is
\* delivered ahead of earlier fileChunks of the same send loop.
ReorderedData(c, p) ==
    \E i \in 2..Len(conns[c][p].inbox) :
        /\ \A j \in 1..i :
               /\ conns[c][p].inbox[j].type = "fileChunk"
               /\ conns[c][p].inbox[j].task = conns[c][p].inbox[i].task
        /\ Deliver(c, p, i)

\* Mutant: after sending a chunk the loop starts the next read at once, without
\* the timer.
ChunkLoadedEager(p, t) ==
    /\ tasks[p][t].phase = "reading"
    /\ LET task == tasks[p][t]
           size == Len(task.file.data)
           isLast == IsLast(task.offset, CHUNK_SIZE(p), size)
           chunk == FileChunk(task.fileId, task.chunkIndex,
                              ChunkData(task.file.data, task.offset, CHUNK_SIZE(p)),
                              isLast, <<p, t>>)
       IN /\ conns' = sendMessage(conns, p, connectionRef[p], chunk)
          /\ tasks' = [tasks EXCEPT ![p][t] =
                          IF isLast
                          THEN [@ EXCEPT !.phase = "done", !.sent = Append(@, chunk)]
                          ELSE [@ EXCEPT !.offset = @ + CHUNK_SIZE(p),
                                         !.chunkIndex = @ + 1,
                                         !.sent = Append(@, chunk)]]
    /\ UNCHANGED <<isMobile, peerId, remotePeerId, status, offeredFiles, remoteFiles,
                   filesMap, downloadingFiles, connectionRef, sink, issued, requested,
                   started, seen, greeted>>
\* chunkReader.onload of send loop t: send the chunk just read; unless it is the
\* last, advance and arm the inter-chunk timer.
ChunkLoaded(p, t) ==
    /\ tasks[p][t].phase = "reading"
    /\ LET task == tasks[p][t]
           size == Len(task.file.data)
           isLast == IsLast(task.offset, CHUNK_SIZE(p), size)
           chunk == FileChunk(task.fileId, task.chunkIndex,
                              ChunkData(task.file.data, task.offset, CHUNK_SIZE(p)),
                              isLast, <<p, t>>)
       IN /\ conns' = sendMessage(conns, p, connectionRef[p], chunk)
          /\ tasks' = [tasks EXCEPT ![p][t] =
                          IF isLast
                          THEN [@ EXCEPT !.phase = "done", !.sent = Append(@, chunk)]
                          ELSE [@ EXCEPT !.offset = @ + CHUNK_SIZE(p),
                                         !.chunkIndex = @ + 1,
                                         !.phase = "waiting",
                                         !.sent = Append(@, chunk)]]
    /\ UNCHANGED <<isMobile, peerId, remotePeerId, status, offeredFiles, remoteFiles,
                   filesMap, downloadingFiles, connectionRef, sink, issued, requested,
                   started, seen, greeted>>

\* setTimeout(sendNextChunk, CHUNK_DELAY) fires: slice the next chunk and start
\* reading it.
sendNextChunk(p, t) ==
    /\ tasks[p][t].phase = "waiting"
    /\ tasks' = [tasks EXCEPT ![p][t].phase = "reading"]
    /\ UNCHANGED <<isMobile, peerId, remotePeerId, status, offeredFiles, remoteFiles,
                   filesMap, downloadingFiles, connectionRef, conns, sink, issued,
                   requested,
                   started, seen, greeted>>

\* ------------------------------------------------------- connection lifecycle
\* peer.connect(...) or an incoming DataConnection handed to setupConnection:
\* connectionRef.current = conn, the 10 s timer armed, the handlers attached.
SetUpEnd == [state |-> "pending", timer |-> TRUE, inbox |-> <<>>]

\* conn.close() by peer p on connection ref.  PeerJS emits 'close' (synchronously)
\* only when the connection was open; a connection closed before it opened never
\* opens and its timer stays armed.
closeConn(cs, p, ref) ==
    IF ref = NoConn \/ cs[ref][p].state \notin {"pending", "open"} THEN cs
    ELSE [cs EXCEPT ![ref][p] =
             [state |-> "closed",
              timer |-> IF cs[ref][p].state = "open" THEN FALSE ELSE @.timer,
              inbox |-> <<>>]]

\* Mutant: the locator is not compared with the identity just issued.
PeerOpenAny(p, connectTo) ==
    /\ peerId[p] = Null
    /\ peerId' = [peerId EXCEPT ![p] = p]
    /\ IF connectTo # Null
       THEN /\ Len(conns) < MaxConns
            /\ conns' = Append(conns, [FreshConn EXCEPT ![p] = SetUpEnd])
            /\ connectionRef' = [connectionRef EXCEPT ![p] = Len(conns) + 1]
            /\ status' = [status EXCEPT ![p] = "connecting"]
       ELSE UNCHANGED <<conns, connectionRef, status>>
    /\ UNCHANGED <<isMobile, remotePeerId, offeredFiles, remoteFiles, filesMap,
                   downloadingFiles, tasks, sink, issued, requested,
                   started, seen, greeted>>
\* peer.on('open', id): the identity is issued; with ?connect=<id> in the URL and
\* that id not the own one, connect to it.
PeerOpen(p, connectTo) ==
    /\ peerId[p] = Null
    /\ peerId' = [peerId EXCEPT ![p] = p]
    /\ IF connectTo # Null /\ connectTo # p
       THEN /\ Len(conns) < MaxConns
            /\ conns' = Append(conns, [FreshConn EXCEPT ![p] = SetUpEnd])
            /\ connectionRef' = [connectionRef EXCEPT ![p] = Len(conns) + 1]
            /\ status' = [status EXCEPT ![p] = "connecting"]
       ELSE UNCHANGED <<conns, connectionRef, status>>
    /\ UNCHANGED <<isMobile, remotePeerId, offeredFiles, remoteFiles, filesMap,
                   downloadingFiles, tasks, sink, issued, requested,
                   started, seen, greeted>>

\* Mutant: the own identity is not told apart.
CanConnectAny(p, remoteId) == TRUE
\* peerRef.current && remoteId !== peerId
CanConnect(p, remoteId) == remoteId # peerId[p]

\* connectToPeer(remoteId)
connectToPeer(p, remoteId) ==
    /\ peerId[p] # Null
    /\ CanConnect(p, remoteId) => Len(conns) < MaxConns
    /\ LET ref == connectionRef[p]
           wasOpen == IsOpen(conns, ref, p)
           closed == closeConn(conns, p, ref)
       IN /\ remotePeerId' = IF wasOpen THEN [remotePeerId EXCEPT ![p] = Null]
                             ELSE remotePeerId
          /\ remoteFiles' = IF wasOpen THEN [remoteFiles EXCEPT ![p] = <<>>]
                            ELSE remoteFiles
          /\ IF CanConnect(p, remoteId)
             THEN /\ conns' = Append(closed, [FreshConn EXCEPT ![p] = SetUpEnd])
                  /\ connectionRef' = [connectionRef EXCEPT ![p] = Len(conns) + 1]
                  /\ status' = [status EXCEPT ![p] = "connecting"]
             ELSE /\ conns' = closed
                  /\ connectionRef' = [connectionRef EXCEPT ![p] = NoConn]
                  /\ status' = [status EXCEPT ![p] = "disconnected"]
    /\ seen' = IF remoteId = peerId[p]
               THEN [seen EXCEPT ![p] = @ \cup {"connect to the own id"}]
               ELSE seen
    /\ UNCHANGED <<isMobile, peerId, offeredFiles, filesMap, downloadingFiles, tasks,
                   sink, issued, requested,
                   started, greeted>>

\* peer.on('connection', conn): the other peer's connection request arrives
Incoming(c, p) ==
    /\ peerId[p] # Null
    /\ conns[c][p].state = "none"
    /\ conns[c][Other(p)].state # "none"
    /\ conns' = [conns EXCEPT ![c][p] = SetUpEnd]
    /\ connectionRef' = [connectionRef EXCEPT ![p] = c]
    /\ status' = [status EXCEPT ![p] = "connecting"]
    /\ UNCHANGED <<isMobile, peerId, remotePeerId, offeredFiles, remoteFiles, filesMap,
                   downloadingFiles, tasks, sink, issued, requested,
                   started, seen, greeted>>

\* conn.on('open'): the data channel of connection c opens at p
ConnOpen(c, p) ==
    /\ conns[c][p].state = "pending"
    /\ conns[c][Other(p)].state \in {"pending", "open"}
    /\ status' = [status EXCEPT ![p] = "connected"]
    /\ conns' = sendAll([conns EXCEPT ![c][p].state = "open", ![c][p].timer = FALSE],
                        p, connectionRef[p],
                        <<Hello(peerId[p])>> \o OffersOf(offeredFiles[p]))
    /\ UNCHANGED <<isMobile, peerId, remotePeerId, offeredFiles, remoteFiles, filesMap,
                   downloadingFiles, connectionRef, tasks, sink, issued, requested,
                   started, seen, greeted>>

\* Mutant: the close handler also empties the local catalog.
ConnCloseForgets(c, p) ==
    /\ conns[c][p].state = "open"
    /\ conns' = [conns EXCEPT ![c][p] = [state |-> "closed", timer |-> FALSE,
                                         inbox |-> <<>>]]
    /\ status' = [status EXCEPT ![p] = "disconnected"]
    /\ remotePeerId' = [remotePeerId EXCEPT ![p] = Null]
    /\ remoteFiles' = [remoteFiles EXCEPT ![p] = <<>>]
    /\ offeredFiles' = [offeredFiles EXCEPT ![p] = <<>>]
    /\ connectionRef' = [connectionRef EXCEPT ![p] = NoConn]
    /\ UNCHANGED <<isMobile, peerId, filesMap, downloadingFiles, tasks,
                   sink, issued, requested, started, seen, greeted>>
\* conn.on('close'): the open channel of connection c is gone at p (the other
\* side closed it, or the network dropped it)
ConnClose(c, p) ==
    /\ conns[c][p].state = "open"
    /\ conns' = [conns EXCEPT ![c][p] = [state |-> "closed", timer |-> FALSE,
                                         inbox |-> <<>>]]
    /\ status' = [status EXCEPT ![p] = "disconnected"]
    /\ remotePeerId' = [remotePeerId EXCEPT ![p] = Null]
    /\ remoteFiles' = [remoteFiles EXCEPT ![p] = <<>>]
    /\ connectionRef' = [connectionRef EXCEPT ![p] = NoConn]
    /\ UNCHANGED <<isMobile, peerId, offeredFiles, filesMap, downloadingFiles, tasks,
                   sink, issued, requested,
                   started, seen, greeted>>

\* Mutant: the error handler requests a new channel.
ConnErrorRetry(c, p) ==
    /\ conns[c][p].state \in {"pending", "open"}
    /\ Len(conns) < MaxConns
    /\ conns' = Append([conns EXCEPT ![c][p].timer = FALSE],
                       [FreshConn EXCEPT ![p] = SetUpEnd])
    /\ connectionRef' = [connectionRef EXCEPT ![p] = Len(conns) + 1]
    /\ status' = [status EXCEPT ![p] = "connecting"]
    /\ UNCHANGED <<isMobile, peerId, remotePeerId, offeredFiles, remoteFiles, filesMap,
                   downloadingFiles, tasks, sink, issued, requested,
                   started, seen, greeted>>
\* conn.on('error'): the adapter reports an error on connection c at p
ConnError(c, p) ==
    /\ conns[c][p].state \in {"pending", "open"}
    /\ conns' = [conns EXCEPT ![c][p].timer = FALSE]
    /\ status' = [status EXCEPT ![p] = "disconnected"]
    /\ UNCHANGED <<isMobile, peerId, remotePeerId, offeredFiles, remoteFiles, filesMap,
                   downloadingFiles, connectionRef, tasks, sink, issued, requested,
                   started, seen, greeted>>

\* the connectionTimeout callback of setupConnection, 10 s after it was armed
ConnTimeout(c, p) ==
    /\ conns[c][p].timer
    /\ IF conns[c][p].state # "open"
       THEN /\ status' = [status EXCEPT ![p] = "disconnected"]
            /\ conns' = [closeConn(conns, p, c) EXCEPT ![c][p].timer = FALSE]
       ELSE /\ conns' = [conns EXCEPT ![c][p].timer = FALSE]
            /\ UNCHANGED status
    /\ UNCHANGED <<isMobile, peerId, remotePeerId, offeredFiles, remoteFiles, filesMap,
                   downloadingFiles, connectionRef, tasks, sink, issued, requested,
                   started, seen, greeted>>

\* peer.on('error'): the adapter reports an error of the peer itself
PeerError(p) ==
    /\ status' = [status EXCEPT ![p] = "disconnected"]
    /\ UNCHANGED <<isMobile, peerId, remotePeerId, offeredFiles, remoteFiles, filesMap,
                   downloadingFiles, connectionRef, conns, tasks, sink, issued,
                   requested,
                   started, seen, greeted>>

\* ------------------------------------------------------------------ catalog
\* files.map(...) of addFiles: ids start after the n already issued (generateFileId
\* is taken never to repeat an id)
RECURSIVE NewFiles(_, _)
NewFiles(files, n) ==
    IF files = <<>> THEN <<>>
    ELSE <<[id |-> n + 1, name |-> Head(files).name, size |-> Len(Head(files).data),
            file |-> Head(files)]>> \o NewFiles(Tail(files), n + 1)

RECURSIVE SetAll(_, _)
SetAll(m, newFiles) ==
    IF newFiles = <<>> THEN m
    ELSE SetAll(MapPut(m, Head(newFiles).id, Head(newFiles).file), Tail(newFiles))

\* the message is sent only with connectionRef.current open and status 'connected'
Active(p) == IsOpen(conns, connectionRef[p], p) /\ status[p] = "connected"

addFiles(p, files) ==
    /\ issued[p] + Len(files) <= MaxFiles
    /\ LET newFiles == NewFiles(files, issued[p])
       IN /\ filesMap' = [filesMap EXCEPT ![p] = SetAll(@, newFiles)]
          /\ offeredFiles' = [offeredFiles EXCEPT ![p] = @ \o newFiles]
          /\ conns' = IF Active(p)
                      THEN sendAll(conns, p, connectionRef[p], OffersOf(newFiles))
                      ELSE conns
    /\ issued' = [issued EXCEPT ![p] = @ + Len(files)]
    /\ UNCHANGED <<isMobile, peerId, remotePeerId, status, remoteFiles,
                   downloadingFiles, connectionRef, tasks, sink, requested,
                   started, seen, greeted>>

removeFile(p, fileId) ==
    /\ filesMap' = [filesMap EXCEPT ![p] = MapDel(@, fileId)]
    /\ offeredFiles' = [offeredFiles EXCEPT ![p] = SelectIds(@, fileId)]
    /\ conns' = IF Active(p)
                THEN sendMessage(conns, p, connectionRef[p], Unoffer(fileId))
                ELSE conns
    /\ UNCHANGED <<isMobile, peerId, remotePeerId, status, remoteFiles,
                   downloadingFiles, connectionRef, tasks, sink, issued, requested,
                   started, seen, greeted>>

RECURSIVE NamedIn(_)
NamedIn(calls) == IF calls = <<>> THEN 0 ELSE Len(Head(calls)[2]) + NamedIn(Tail(calls))

requestFiles(p, fileIds) ==
    /\ NamedIn(requested) + Len(fileIds) <= MaxRequested
    /\ conns' = sendMessage(conns, p, connectionRef[p], Accept(fileIds))
    /\ requested' = Append(requested, <<p, fileIds>>)
    /\ UNCHANGED <<isMobile, peerId, remotePeerId, status, offeredFiles, remoteFiles,
                   filesMap, downloadingFiles, connectionRef, tasks, sink, issued,
                   started, seen, greeted>>

\* --------------------------------------------------------------- user input
IdsOf(fs) == {fs[i].id : i \in 1..Len(fs)}
\* the non-empty lists of distinct ids of S (a selection of the file list)
Selections(S) ==
    UNION {{s \in [1..n -> S] : \A i, j \in 1..n : i # j => s[i] # s[j]} :
           n \in 1..Cardinality(S)}
\* the non-empty lists of at most two distinct files of the input set
FileLists(inputs) ==
    {<<f>> : f \in inputs}
    \cup {<<pair[1], pair[2]>> : pair \in {q \in inputs \X inputs : q[1] # q[2]}}

\* ------------------------------------------------------------ specifications
Transfer ==
    \/ \E p \in Peers : \E c \in 1..Len(conns) : ConnData(c, p)
    \/ \E p \in Peers : \E t \in 1..Len(tasks[p]) : ChunkLoaded(p, t)
    \/ \E p \in Peers : \E t \in 1..Len(tasks[p]) : sendNextChunk(p, t)

Download ==
    \E p \in Requesters : \E ids \in Selections(IdsOf(remoteFiles[p])) :
        requestFiles(p, ids)

\* the largest files of the input set
LargeInputs == {f \in FileInputs : Len(f.data) = MaxFileSize}

Add == \E p \in Offerers : \E files \in FileLists(LargeInputs) : addFiles(p, files)

\* the first file of a catalog
AddOne ==
    \E p \in Offerers : \E f \in FileInputs : issued[p] = 0 /\ addFiles(p, <<f>>)

Remove == \E p \in Offerers : \E id \in IdsOf(offeredFiles[p]) : removeFile(p, id)

Lifecycle ==
    \/ \E p \in Peers : \E connectTo \in Peers \cup {Null} : PeerOpen(p, connectTo)
    \/ \E p \in Peers : \E remoteId \in Peers : connectToPeer(p, remoteId)
    \/ \E p \in Peers : \E c \in 1..Len(conns) : Incoming(c, p)
    \/ \E p \in Peers : \E c \in 1..Len(conns) : ConnOpen(c, p)

Failure ==
    \/ \E p \in Peers : \E c \in 1..Len(conns) : ConnClose(c, p)
    \/ \E p \in Peers : \E c \in 1..Len(conns) : ConnError(c, p)
    \/ \E p \in Peers : \E c \in 1..Len(conns) : ConnTimeout(c, p)
    \/ \E p \in Peers : PeerError(p)

\* A session set up once, by the link a requester opens, over a channel that stays
\* open: no close, error or timeout, no second connection.
SetUp ==
    \/ \E p \in Offerers : PeerOpen(p, Null)
    \/ \E p \in Requesters : \E connectTo \in Offerers : PeerOpen(p, connectTo)
    \/ \E p \in Peers : \E c \in 1..Len(conns) : Incoming(c, p)
    \/ \E p \in Peers : \E c \in 1..Len(conns) : ConnOpen(c, p)

NextOpen == SetUp \/ AddOne \/ Download \/ Transfer

SpecOpen == Init /\ [][NextOpen]_vars

\* The same session with a remote end that also sends objects of no protocol type.
Foreign == \E p \in Peers : \E c \in 1..Len(conns) : ForeignData(c, p)

NextForeign == NextOpen \/ Foreign

SpecForeign == Init /\ [][NextForeign]_vars

\* The same session with a remote end that also answers as the whole-file engine.
Legacy == \E p \in Requesters : \E c \in 1..Len(conns) : LegacyData(c, p)

NextLegacy == NextOpen \/ Legacy

SpecLegacy == Init /\ [][NextLegacy]_vars

\* The same session over a channel that may deliver the chunks of a transfer in
\* any order.
Reorder == \E p \in Peers : \E c \in 1..Len(conns) : ReorderedData(c, p)

NextReorder == NextOpen \/ Reorder

SpecReorder == Init /\ [][NextReorder]_vars

\* The same session over a channel that may close, fail or time out.
NextLoss == NextOpen \/ Failure

SpecLoss == Init /\ [][NextLoss]_vars

\* Sessions that connect, reconnect and fail, with the messages of the handshake
\* and of the catalog handled but no file requested.
Receive == \E p \in Peers : \E c \in 1..Len(conns) : ConnData(c, p)

\* one of the largest files as the first file of a catalog
AddLarge ==
    \E p \in Offerers : \E f \in LargeInputs : issued[p] = 0 /\ addFiles(p, <<f>>)

NextConnect == Lifecycle \/ Failure \/ Receive \/ AddLarge

SpecConnect == Init /\ [][NextConnect]_vars

\* The same sessions with the open-timeout bound to fire: setTimeout callbacks run.
Timeout(c, p) == c \in 1..Len(conns) /\ ConnTimeout(c, p)

NextTimeout == Lifecycle \/ Failure \/ Receive

SpecTimeout ==
    /\ Init
    /\ [][NextTimeout]_vars
    /\ \A p \in Peers : \A c \in 1..MaxConns : WF_vars(Timeout(c, p))

\* A session set up once in which the catalog grows and shrinks while files are
\* requested.
SmallInputs == {f \in FileInputs : Len(f.data) \in {1, 3}}

AddSmall == \E p \in Offerers : \E files \in FileLists(SmallInputs) : addFiles(p, files)

NextCatalog == SetUp \/ AddSmall \/ Remove \/ Download \/ Transfer

SpecCatalog == Init /\ [][NextCatalog]_vars

\* Sessions in which each peer may open the other's link, channels close, and the
\* catalog grows and shrinks, with no file requested.
Links ==
    \/ \E p \in Peers : \E connectTo \in Peers \cup {Null} : PeerOpen(p, connectTo)
    \/ \E p \in Peers : \E c \in 1..Len(conns) : Incoming(c, p)
    \/ \E p \in Peers : \E c \in 1..Len(conns) : ConnOpen(c, p)

Closes == \E p \in Peers : \E c \in 1..Len(conns) : ConnClose(c, p)

NextUnoffer == Links \/ Closes \/ Receive \/ AddSmall \/ Remove

SpecUnoffer == Init /\ [][NextUnoffer]_vars

\* Sessions in which each peer may open the other's link and channels close,
\* with two small files offered together and requested, no chunk being sent.
AddPair ==
    \E p \in Offerers : \E files \in FileLists(SmallInputs) :
        Len(files) = 2 /\ addFiles(p, files)

NextRequest == Links \/ Closes \/ Receive \/ AddPair \/ Download

SpecRequest == Init /\ [][NextRequest]_vars

\* Sessions started from any locator (none, the own identity, the other peer's),
\* with channels that open and close and no file offered.
NextLocator == Links \/ Closes \/ Receive

SpecLocator == Init /\ [][NextLocator]_vars

\* Sessions that fail and are set up again by the requester, with one small file
\* offered, removed, and requested once.
AddFirst == \E p \in Offerers : \E f \in SmallInputs : issued[p] = 0 /\ addFiles(p, <<f>>)

Reconnect == \E p \in Requesters : connectToPeer(p, Other(p))

DownloadOnce == requested = <<>> /\ Download

NextSession ==
    SetUp \/ Failure \/ Reconnect \/ AddFirst \/ Remove \/ DownloadOnce \/ Transfer

SpecSession == Init /\ [][NextSession]_vars

\* A session over a channel that stays open in which one or two of the largest
\* files are offered and one accept names one or both of them.
NextMulti == SetUp \/ Add \/ DownloadOnce \/ Transfer

SpecMulti == Init /\ [][NextMulti]_vars

Next == Lifecycle \/ Failure \/ Add \/ Remove \/ Download \/ Transfer

Spec == Init /\ [][Next]_vars

\* =================================================================== claims
\* Vocabulary of the claims.
\* The fileChunk messages send loop task has passed to sendMessage so far (its
\* first message is the fileStart).
ChunksOf(task) == SubSeq(task.sent, 2, Len(task.sent))
\* The least n with n * chunkSize >= size: ceil(size / chunkSize).
CeilDiv(size, chunkSize) ==
    CHOOSE n \in 0..size : n * chunkSize >= size /\ (n = 0 \/ (n - 1) * chunkSize < size)
\* The bytes of the file the other peer offers under fileId (every send loop for
\* the id holds that file).
SourceData(p, fileId) ==
    LET q == Other(p)
        t == CHOOSE t \in 1..Len(tasks[q]) : tasks[q][t].fileId = fileId
    IN tasks[q][t].file.data
\* Number of hand-offs for fileId at p, and number of times p has named it in an accept.
HandOffs(p, fileId) == Cardinality({i \in 1..Len(sink[p]) : sink[p][i].fileId = fileId})
RECURSIVE Occurrences(_, _)
Occurrences(ids, fileId) ==
    IF ids = <<>> THEN 0
    ELSE (IF Head(ids) = fileId THEN 1 ELSE 0) + Occurrences(Tail(ids), fileId)
RECURSIVE Named(_, _, _)
Named(calls, p, fileId) ==
    IF calls = <<>> THEN 0
    ELSE (IF Head(calls)[1] = p THEN Occurrences(Head(calls)[2], fileId) ELSE 0)
         + Named(Tail(calls), p, fileId)
\* Nothing is in flight and no send loop has a step left.
Quiescent ==
    /\ \A c \in 1..Len(conns) : \A p \in Peers : conns[c][p].inbox = <<>>
    /\ \A p \in Peers : \A t \in 1..Len(tasks[p]) : tasks[p][t].phase = "done"

\* C1 (as claimed): over a connection that stays open, the buffer handed to the
\* Delivery Sink for an accepted file is byte-for-byte the sender's source file
\* (so it has exactly S bytes).
C1_HandOffIsSource ==
    \A p \in Peers : \A i \in 1..Len(sink[p]) :
        sink[p][i].data = SourceData(p, sink[p][i].fileId)

\* C2 (as claimed): over a connection that stays open, every accept naming an
\* offered id ends in exactly one hand-off for that id: never more hand-offs than
\* accepts, and once nothing is in flight as many hand-offs as accepts, each of
\* the complete file.
C2_ExactlyOnce ==
    \A p \in Requesters : \A fileId \in 1..MaxFiles :
        /\ HandOffs(p, fileId) <= Named(requested, p, fileId)
        /\ Quiescent => HandOffs(p, fileId) = Named(requested, p, fileId)
        /\ \A i \in 1..Len(sink[p]) :
               sink[p][i].fileId = fileId =>
                   Len(sink[p][i].data) = Len(SourceData(p, fileId))

\* C3 (as claimed): a send task emits exactly ceil(S / chunkSize) fileChunk
\* messages, with chunkIndex 0, 1, ..., totalChunks-1 in ascending order, and no
\* chunk with an index outside 0..totalChunks-1, for every S >= 0.
C3_ChunkCountAndIndices ==
    \A p \in Peers : \A t \in 1..Len(tasks[p]) :
        LET task == tasks[p][t]
            chunks == ChunksOf(task)
            totalChunks == CeilDiv(Len(task.file.data), CHUNK_SIZE(p))
        IN /\ \A k \in 1..Len(chunks) :
                  /\ chunks[k].chunkIndex = k - 1
                  /\ chunks[k].chunkIndex \in 0..(totalChunks - 1)
           /\ task.phase = "done" => Len(chunks) = totalChunks

\* C4: the first message of every send task is fileStart{fileId, name, size,
\* totalChunks} with totalChunks = ceil(size / chunkSize), every later message of
\* the task is a fileChunk of that fileId; and on the channel a fileChunk is
\* behind the fileStart of its task, or that fileStart has been handled already.
C4_FileStartFirst ==
    /\ \A p \in Peers : \A t \in 1..Len(tasks[p]) :
           LET task == tasks[p][t]
               first == task.sent[1]
           IN /\ first.type = "fileStart"
              /\ first.fileId = task.fileId
              /\ first.name = task.file.name
              /\ first.size = Len(task.file.data)
              /\ first.totalChunks = CeilDiv(Len(task.file.data), CHUNK_SIZE(p))
              /\ \A k \in 2..Len(task.sent) :
                     /\ task.sent[k].type = "fileChunk"
                     /\ task.sent[k].fileId = task.fileId
    /\ \A c \in 1..Len(conns) : \A p \in Peers :
           LET inbox == conns[c][p].inbox IN
           \A i \in 1..Len(inbox) :
               inbox[i].type = "fileChunk" =>
                   \/ inbox[i].task \in started[p]
                   \/ \E j \in 1..(i - 1) :
                          inbox[j].type = "fileStart" /\ inbox[j].task = inbox[i].task

\* C4's case: a peer has handled the fileStart and then a fileChunk of a send task.
C4_Witness ==
    \E p \in Peers : \E t \in 1..Len(tasks[p]) :
        /\ <<p, t>> \in started[Other(p)]
        /\ Len(tasks[p][t].sent) >= 3
        /\ \E f \in DOMAIN downloadingFiles[Other(p)] :
               downloadingFiles[Other(p)][f].receivedChunks >= 1

\* The sizes of the chunks the send loop arithmetic yields for a file of the
\* given size, from the given offset on.
RECURSIVE ChunkSizesFrom(_, _, _)
ChunkSizesFrom(size, chunkSize, offset) ==
    LET n == Min(offset + chunkSize, size) - Min(offset, size) IN
    IF IsLast(offset, chunkSize, size) THEN <<n>>
    ELSE <<n>> \o ChunkSizesFrom(size, chunkSize, offset + chunkSize)

RECURSIVE SumLen(_)
SumLen(chunks) == IF chunks = <<>> THEN 0 ELSE Len(Head(chunks).data) + SumLen(Tail(chunks))

\* C5: chunk i of a send task carries the source bytes [i*C, min((i+1)*C, S)):
\* every chunk but the final one has C bytes and the sizes of a finished stream
\* sum to S; for S = 150000 and C = 65536 the loop yields 65536, 65536, 18928.
C5_ChunkPayloads ==
    /\ \A p \in Peers : \A t \in 1..Len(tasks[p]) :
           LET task == tasks[p][t]
               chunks == ChunksOf(task)
               source == task.file.data
               C == CHUNK_SIZE(p)
           IN /\ \A k \in 1..Len(chunks) :
                     LET i == chunks[k].chunkIndex
                         hi == IF (i + 1) * C < Len(source) THEN (i + 1) * C
                               ELSE Len(source)
                     IN /\ Len(chunks[k].data) = hi - i * C
                        /\ \A j \in 1..Len(chunks[k].data) :
                               chunks[k].data[j] = source[i * C + j]
                        /\ (k < Len(chunks) \/ task.phase # "done") =>
                               Len(chunks[k].data) = C
              /\ task.phase = "done" => SumLen(chunks) = Len(source)
    /\ TotalChunks(150000, 65536) = 3
    /\ ChunkSizesFrom(150000, 65536, 0) = <<65536, 65536, 18928>>

\* C5's case: a finished stream of three chunks whose final chunk is short.
C5_Witness ==
    \E p \in Peers : \E t \in 1..Len(tasks[p]) :
        /\ tasks[p][t].phase = "done"
        /\ Len(tasks[p][t].sent) = 4
        /\ Len(tasks[p][t].sent[4].data) \in 1..(CHUNK_SIZE(p) - 1)

\* C6: in a send task's stream the chunk with index totalChunks-1 carries isLast
\* = true and every chunk with a smaller index isLast = false; at most one chunk
\* carries isLast = true, it is the last message, and a finished stream has one.
C6_IsLastOnFinalChunk ==
    \A p \in Peers : \A t \in 1..Len(tasks[p]) :
        LET task == tasks[p][t]
            chunks == ChunksOf(task)
            totalChunks == CeilDiv(Len(task.file.data), CHUNK_SIZE(p))
            last == {k \in 1..Len(chunks) : chunks[k].isLast}
        IN /\ \A k \in 1..Len(chunks) :
                  /\ chunks[k].chunkIndex = totalChunks - 1 => chunks[k].isLast
                  /\ chunks[k].chunkIndex < totalChunks - 1 => ~chunks[k].isLast
           /\ Cardinality(last) <= 1
           /\ last # {} => last = {Len(chunks)} /\ task.phase = "done"
           /\ task.phase = "done" => Cardinality(last) = 1

\* C6's case: a finished stream of several chunks.
C6_Witness ==
    \E p \in Peers : \E t \in 1..Len(tasks[p]) :
        /\ tasks[p][t].phase = "done"
        /\ Len(tasks[p][t].sent) >= 3
        /\ tasks[p][t].sent[Len(tasks[p][t].sent)].isLast

\* C7 (as claimed): whatever the order in which the chunks of a transfer arrive
\* after its fileStart, the buffer handed to the Delivery Sink is the source (a
\* file requested once, so that no other transfer of the id interferes).
C7_ReorderedIsSource ==
    \A p \in Peers : \A i \in 1..Len(sink[p]) :
        Named(requested, p, sink[p][i].fileId) = 1 =>
            sink[p][i].data = SourceData(p, sink[p][i].fileId)

\* The filled slots of a slot map concatenated by ascending index.
RECURSIVE ConcatAscending(_, _)
ConcatAscending(slots, indices) ==
    IF indices = {} THEN <<>>
    ELSE LET i == CHOOSE i \in indices : \A j \in indices : i <= j
         IN slots[i] \o ConcatAscending(slots, indices \ {i})

\* C8: handling a fileChunk of an existing transfer stores the payload at
\* slots[chunkIndex] and adds one to receivedCount; the transfer completes exactly
\* when isLast is set or receivedCount = totalChunks, and then the filled slots
\* concatenated by ascending index (an unset slot adds nothing) are handed over
\* and the transfer's state is removed; status and connection are untouched.
C8_ChunkHandling ==
    [][\A p \in Peers : \A c \in 1..Len(conns) :
          LET inbox == conns[c][p].inbox IN
          (/\ conns[c][p].state = "open"
           /\ inbox # <<>>
           /\ Head(inbox).type = "fileChunk"
           /\ Head(inbox).fileId \in DOMAIN downloadingFiles[p]
           /\ conns'[c][p].inbox = Tail(inbox))
          => LET m == Head(inbox)
                 old == downloadingFiles[p][m.fileId]
                 count == old.receivedChunks + 1
                 slots == [i \in DOMAIN old.chunks.at \cup {m.chunkIndex} |->
                              IF i = m.chunkIndex THEN m.data ELSE old.chunks.at[i]]
             IN /\ IF m.isLast \/ count = old.totalChunks
                   THEN /\ Len(sink'[p]) = Len(sink[p]) + 1
                        /\ SubSeq(sink'[p], 1, Len(sink[p])) = sink[p]
                        /\ sink'[p][Len(sink'[p])].name = old.name
                        /\ sink'[p][Len(sink'[p])].data =
                               ConcatAscending(slots, DOMAIN slots)
                        /\ m.fileId \notin DOMAIN downloadingFiles'[p]
                   ELSE /\ sink'[p] = sink[p]
                        /\ m.fileId \in DOMAIN downloadingFiles'[p]
                        /\ downloadingFiles'[p][m.fileId].chunks.at = slots
                        /\ downloadingFiles'[p][m.fileId].receivedChunks = count
                /\ \A f \in DOMAIN downloadingFiles[p] \ {m.fileId} :
                       /\ f \in DOMAIN downloadingFiles'[p]
                       /\ downloadingFiles'[p][f] = downloadingFiles[p][f]
                /\ status' = status
                /\ conns'[c][p].state = "open"]_vars

\* C8's case: a transfer completed with a slot unset, the hand-off is short of
\* the source by that slot.
C8_Witness ==
    \E p \in Peers : \E i \in 1..Len(sink[p]) :
        /\ sink[p][i].data # <<>>
        /\ Len(sink[p][i].data) < Len(SourceData(p, sink[p][i].fileId))

\* C9 (as claimed): in every reachable state with status Disconnected the remote
\* catalog is empty and the remote identity is null.
C9_DisconnectedClearsRemote ==
    \A p \in Peers :
        status[p] = "disconnected" => remoteFiles[p] = <<>> /\ remotePeerId[p] = Null

\* C10 (as claimed): every transition into Disconnected leaves no receiver
\* transfer state.
C10_DisconnectDiscardsTransfers ==
    [][\A p \in Peers :
          (status[p] # "disconnected" /\ status'[p] = "disconnected")
          => DOMAIN downloadingFiles'[p] = {}]_vars

\* The connections peer p has set up and neither closed nor seen closed.
Live(p) == {c \in 1..Len(conns) : conns[c][p].state \in {"pending", "open"}}

\* C11 (as claimed): at any time at most one connection is active for a session:
\* setting up a new one, by connect or by an incoming request, closes the prior.
C11_SingleActiveConnection ==
    \A p \in Peers : Cardinality(Live(p)) <= 1

\* C12 (as claimed): the status only moves Disconnected -> Connecting ->
\* Connected -> Disconnected, or Connecting -> Disconnected.
C12_StatusTransitions ==
    [][\A p \in Peers :
          \/ status'[p] = status[p]
          \/ <<status[p], status'[p]>> \in
                 {<<"disconnected", "connecting">>, <<"connecting", "connected">>,
                  <<"connected", "disconnected">>, <<"connecting", "disconnected">>}]_vars

\* C13: connect(targetId) with targetId the local identity requests no channel
\* from the adapter (no connection object is created, none is set up at the
\* peer) and leaves the status Disconnected.
C13_SelfConnectRejected ==
    [][\A p \in Peers :
          connectToPeer(p, peerId[p])
          => /\ Len(conns') = Len(conns)
             /\ \A c \in 1..Len(conns) :
                    conns[c][p].state = "none" => conns'[c][p].state = "none"
             /\ Live(p)' \subseteq Live(p)
             /\ connectionRef'[p] = NoConn
             /\ status'[p] = "disconnected"]_vars

\* C13's case: a peer has called connect with its own identity.
C13_Witness ==
    \E p \in Peers :
        /\ "connect to the own id" \in seen[p]
        /\ status[p] = "disconnected"
        /\ connectionRef[p] = NoConn

\* C14 (as claimed): on the channel-open event the session enters Connected and
\* sends hello{peerId: localId} followed by one offer per entry of the local
\* catalog, in catalog order, to the other peer.
C14_OpenAnnounces ==
    [][\A p \in Peers : \A c \in 1..Len(conns) :
          ConnOpen(c, p)
          => /\ status'[p] = "connected"
             /\ \E ref \in 1..Len(conns) :
                    conns'[ref][Other(p)].inbox =
                        conns[ref][Other(p)].inbox
                        \o <<Hello(peerId[p])>> \o OffersOf(offeredFiles[p])]_vars

\* C15 (as claimed): once a peer has handled the hello of a connection, its
\* remote identity is the other peer's identity for as long as that connection
\* remains open.
C15_RemoteIdentityStays ==
    \A p \in Peers : \A c \in greeted[p] :
        conns[c][p].state = "open" => remotePeerId[p] = peerId[Other(p)]

\* C16: handling an offer for an id already in the remote catalog leaves the
\* remote catalog unchanged, and in every reachable state the remote catalog
\* holds at most one entry per file id.
C16_OfferIdempotent ==
    /\ [](\A p \in Peers : \A i, j \in 1..Len(remoteFiles[p]) :
              remoteFiles[p][i].id = remoteFiles[p][j].id => i = j)
    /\ [][\A p \in Peers : \A c \in 1..Len(conns) :
             LET inbox == conns[c][p].inbox IN
             (/\ inbox # <<>>
              /\ Head(inbox).type = "offer"
              /\ \E i \in 1..Len(remoteFiles[p]) :
                     remoteFiles[p][i].id = Head(inbox).file.id
              /\ ConnData(c, p))
             => remoteFiles'[p] = remoteFiles[p]]_vars

\* C16's case: a peer has handled an offer for an id it already knew and holds
\* the entry.
C16_Witness ==
    \E p \in Peers :
        /\ "offer of a known id" \in seen[p]
        /\ Len(remoteFiles[p]) = 1

\* C17: handling unoffer{fileId} removes exactly the remote catalog entry with
\* that id and leaves the other entries and their order unchanged; with no such
\* entry the remote catalog is unchanged; status, remote identity and the
\* connection are untouched (no error).
C17_UnofferRemoves ==
    [][\A p \in Peers : \A c \in 1..Len(conns) :
          LET inbox == conns[c][p].inbox
              prev == remoteFiles[p]
              kept == {i \in 1..Len(prev) : prev[i].id # Head(inbox).fileId}
          IN (/\ inbox # <<>>
              /\ Head(inbox).type = "unoffer"
              /\ ConnData(c, p))
             => /\ Len(remoteFiles'[p]) = Cardinality(kept)
                /\ \A i \in kept :
                       remoteFiles'[p][Cardinality({j \in kept : j <= i})] = prev[i]
                /\ kept = 1..Len(prev) => remoteFiles'[p] = prev
                /\ status' = status
                /\ remotePeerId' = remotePeerId
                /\ conns'[c][p].state = "open"]_vars

\* C17's case: a peer has handled an unoffer that removed one of several entries
\* and an unoffer for an id it did not hold.
C17_Witness ==
    \E p \in Peers :
        /\ "unoffer of one id among others" \in seen[p]
        /\ "unoffer of an unknown id" \in seen[p]

\* C18: a connection error (the adapter's error event on the peer or on a
\* connection, or the open-timeout of a connection that has not opened) ends
\* with status Disconnected and requests no channel; a channel is requested only
\* by a connect call or by opening a link.
C18_NoAutomaticRetry ==
    [][/\ \A p \in Peers :
             (\/ PeerError(p)
              \/ \E c \in 1..Len(conns) :
                     \/ ConnError(c, p)
                     \/ conns[c][p].state # "open" /\ ConnTimeout(c, p))
             => /\ status'[p] = "disconnected"
                /\ Len(conns') = Len(conns)
                /\ Live(p)' \subseteq Live(p)
       /\ Len(conns') > Len(conns)
             => \E p \in Peers : \E remoteId \in Peers :
                    connectToPeer(p, remoteId) \/ PeerOpen(p, remoteId)]_vars

\* C18's case: a connection that was being opened has reported an error and the
\* peer is Disconnected.
C18_Witness ==
    \E p \in Peers : \E c \in 1..Len(conns) :
        /\ conns[c][p].state = "pending"
        /\ ~conns[c][p].timer
        /\ status[p] = "disconnected"

RECURSIVE PresentIds(_, _)
PresentIds(p, fileIds) ==
    IF fileIds = <<>> THEN <<>>
    ELSE (IF Head(fileIds) \in DOMAIN filesMap[p] THEN <<Head(fileIds)>> ELSE <<>>)
         \o PresentIds(p, Tail(fileIds))

\* C20: handling an accept starts one send loop, with its fileStart sent, for
\* every named id the local catalog holds, in the order of the accept, and none
\* for an id it does not hold; nothing else is sent, status and connection are
\* untouched; and no fileStart or fileChunk is ever sent for an id that was
\* absent when its accept was handled.
C20_AbsentIdSkipped ==
    [][\A p \in Peers : \A c \in 1..Len(conns) :
          LET inbox == conns[c][p].inbox
              ids == PresentIds(p, Head(inbox).fileIds)
              ref == connectionRef[p]
              out == conns[ref][Other(p)].inbox
          IN (/\ inbox # <<>>
              /\ Head(inbox).type = "accept"
              /\ ConnData(c, p))
             => /\ Len(tasks'[p]) = Len(tasks[p]) + Len(ids)
                /\ SubSeq(tasks'[p], 1, Len(tasks[p])) = tasks[p]
                /\ \A k \in 1..Len(ids) :
                       LET task == tasks'[p][Len(tasks[p]) + k]
                       IN /\ task.fileId = ids[k]
                          /\ task.sent[1].type = "fileStart"
                          /\ task.sent[1].fileId = ids[k]
                          /\ IsOpen(conns, ref, p) =>
                                 conns'[ref][Other(p)].inbox[Len(out) + k] = task.sent[1]
                /\ IsOpen(conns, ref, p) =>
                       Len(conns'[ref][Other(p)].inbox) = Len(out) + Len(ids)
                /\ status' = status
                /\ conns'[c][p].state = "open"]_vars

\* C20's case: one accept named an id the sender no longer held and an id it
\* held, and the file of the latter was handed over.
C20_Witness ==
    \E p \in Offerers : \E q \in Requesters :
        /\ "accept of an absent id" \in seen[p]
        /\ Len(requested) = 1
        /\ Len(requested[1][2]) = 2
        /\ Len(tasks[p]) = 1
        /\ Len(sink[q]) = 1
        /\ sink[q][1].fileId = tasks[p][1].fileId

\* C21: handling a message whose type is none of the protocol's, or a fileChunk
\* whose fileId has no receiver transfer state, changes neither the status, the
\* remote identity, either catalog nor any receiver transfer state, sends nothing
\* (the only change to the channels is that the message has left its inbox),
\* delivers nothing to the sink and leaves the connection open.
C21_IgnoredMessages ==
    [][\A p \in Peers : \A c \in 1..Len(conns) :
          (/\ conns[c][p].inbox # <<>>
           /\ LET message == Head(conns[c][p].inbox)
              IN \/ message.type \notin {"hello", "offer", "unoffer", "accept",
                                          "fileStart", "fileChunk", "fileContent"}
                 \/ /\ message.type = "fileChunk"
                    /\ message.fileId \notin DOMAIN downloadingFiles[p]
           /\ ConnData(c, p))
          => /\ UNCHANGED <<status, remotePeerId, offeredFiles, filesMap, remoteFiles,
                            downloadingFiles, sink, tasks, connectionRef>>
             /\ conns' = [conns EXCEPT ![c][p].inbox = Tail(@)]
             /\ conns'[c][p].state = "open"]_vars
\* Both cases have been handled by one peer, which had delivered a file before.
C21_Witness ==
    \E p \in Peers :
        /\ {"message of an unknown type", "fileChunk without transfer state"}
               \subseteq seen[p]
        /\ sink[p] # <<>>
\* C22 (as claimed): addFiles(files) appends one record per file to the local
\* catalog, in the given order and each under an id no record or registry entry
\* has; while the status is Connected it sends exactly one offer{id, name, size}
\* per added file, in addition order, and otherwise it sends nothing.
C22_AddLocal ==
    [][\A p \in Offerers : \A files \in FileLists(FileInputs) :
          addFiles(p, files)
          => LET n == Len(offeredFiles[p])
                 q == Other(p)
                 ref == connectionRef[p]
                 offers == [i \in 1..Len(files) |->
                               [type |-> "offer",
                                file |-> [id |-> offeredFiles'[p][n + i].id,
                                          name |-> files[i].name,
                                          size |-> Len(files[i].data)]]]
             IN /\ Len(offeredFiles'[p]) = n + Len(files)
                /\ SubSeq(offeredFiles'[p], 1, n) = offeredFiles[p]
                /\ \A i \in 1..Len(files) :
                       /\ offeredFiles'[p][n + i].file = files[i]
                       /\ offeredFiles'[p][n + i].name = files[i].name
                       /\ offeredFiles'[p][n + i].size = Len(files[i].data)
                       /\ offeredFiles'[p][n + i].id \notin
                              IdsOf(offeredFiles[p]) \cup DOMAIN filesMap[p]
                       /\ \A j \in 1..Len(files) :
                              j # i => offeredFiles'[p][n + j].id # offeredFiles'[p][n + i].id
                /\ IF status[p] = "connected"
                   THEN /\ IsOpen(conns, ref, p)
                        /\ conns' = IF conns[ref][q].state = "closed" THEN conns
                                    ELSE [conns EXCEPT ![ref][q].inbox = @ \o offers]
                   ELSE conns' = conns]_vars

\* C23 (as claimed): removeFile(id) deletes the record from the local catalog and
\* from the id-to-bytes registry and leaves every other record as it was; while
\* the status is Connected it sends exactly one unoffer{id}, otherwise nothing.
C23_RemoveLocal ==
    [][\A p \in Offerers : \A fileId \in IdsOf(offeredFiles[p]) :
          removeFile(p, fileId)
          => LET q == Other(p)
                 ref == connectionRef[p]
                 kept == {i \in 1..Len(offeredFiles[p]) : offeredFiles[p][i].id # fileId}
             IN /\ fileId \notin IdsOf(offeredFiles'[p])
                /\ fileId \notin DOMAIN filesMap'[p]
                /\ Len(offeredFiles'[p]) = Cardinality(kept)
                /\ \A i \in kept :
                       offeredFiles'[p][Cardinality({j \in kept : j <= i})]
                           = offeredFiles[p][i]
                /\ \A id \in DOMAIN filesMap[p] \ {fileId} :
                       id \in DOMAIN filesMap'[p] /\ filesMap'[p][id] = filesMap[p][id]
                /\ IF status[p] = "connected"
                   THEN /\ IsOpen(conns, ref, p)
                        /\ conns' = IF conns[ref][q].state = "closed" THEN conns
                                    ELSE [conns EXCEPT ![ref][q].inbox =
                                             Append(@, [type |-> "unoffer",
                                                        fileId |-> fileId])]
                   ELSE conns' = conns]_vars
\* C24: the local catalog and the id-to-bytes registry of a peer change only in a
\* step of addFiles or removeFile: no connect, open, close, error or timeout and
\* no received message adds, removes or reorders an entry.
C24_LocalCatalogFrame ==
    [][\A p \in Peers :
          (offeredFiles'[p] # offeredFiles[p] \/ filesMap'[p] # filesMap[p])
          => \/ \E files \in FileLists(FileInputs) : addFiles(p, files)
             \/ \E fileId \in IdsOf(offeredFiles[p]) : removeFile(p, fileId)]_vars
\* The catalog is still there after the session was lost, set up again and a
\* file of it was delivered.
C24_Witness ==
    \E p \in Offerers :
        /\ offeredFiles[p] # <<>>
        /\ Len(conns) = 2
        /\ conns[1][p].state = "closed"
        /\ conns[2][p].state = "open"
        /\ sink[Other(p)] # <<>>
\* C25: requestFiles(ids) leaves the status, both catalogs, the registry, the
\* remote identity, every receiver transfer state, the send loops and the sink
\* unchanged; when the channel connectionRef names is open it puts exactly one
\* accept carrying ids, unchanged and in order, on that channel (lost if the
\* other end has closed), and otherwise it changes no channel.
C25_RequestDownload ==
    [][\A p \in Requesters : \A ids \in Selections(IdsOf(remoteFiles[p])) :
          requestFiles(p, ids)
          => LET q == Other(p)
                 ref == connectionRef[p]
             IN /\ UNCHANGED <<status, offeredFiles, filesMap, remoteFiles,
                               remotePeerId, downloadingFiles, tasks, sink,
                               connectionRef>>
                /\ conns' = IF IsOpen(conns, ref, p) /\ conns[ref][q].state # "closed"
                            THEN [conns EXCEPT ![ref][q].inbox =
                                     Append(@, [type |-> "accept", fileIds |-> ids])]
                            ELSE conns]_vars
\* An accept naming two ids in the order <<2, 1>> reached the offerer, which
\* started the send loops in that order.
C25_Witness ==
    \E p \in Requesters :
        /\ requested = <<<<p, <<2, 1>>>>>>
        /\ Len(tasks[Other(p)]) = 2
        /\ tasks[Other(p)][1].fileId = 2
        /\ tasks[Other(p)][2].fileId = 1
\* C26: handling a fileStart sets the receiver transfer state of its fileId to a
\* fresh one (totalChunks empty slots, no chunk received, the name and size of
\* the message), whatever state the id had, and leaves the state of every other
\* fileId as it was.
C26_FileStartReplaces ==
    [][\A p \in Peers : \A c \in 1..Len(conns) :
          (/\ conns[c][p].inbox # <<>>
           /\ Head(conns[c][p].inbox).type = "fileStart"
           /\ ConnData(c, p))
          => LET message == Head(conns[c][p].inbox)
                 new == downloadingFiles'[p]
             IN /\ DOMAIN new = DOMAIN downloadingFiles[p] \cup {message.fileId}
                /\ new[message.fileId].chunks.len = message.totalChunks
                /\ DOMAIN new[message.fileId].chunks.at = {}
                /\ new[message.fileId].receivedChunks = 0
                /\ new[message.fileId].totalChunks = message.totalChunks
                /\ new[message.fileId].name = message.name
                /\ new[message.fileId].size = message.size
                /\ \A fileId \in DOMAIN downloadingFiles[p] \ {message.fileId} :
                       new[fileId] = downloadingFiles[p][fileId]]_vars
\* A fileStart was handled for an id whose state held a received chunk, and the
\* state of the id is empty afterwards.
C26_Witness ==
    \E p \in Peers : \E fileId \in DOMAIN downloadingFiles[p] :
        /\ "fileStart over received chunks" \in seen[p]
        /\ downloadingFiles[p][fileId].receivedChunks = 0
        /\ downloadingFiles[p][fileId].totalChunks = 2
\* C27: with the ids of one accept sent by concurrent send loops over a channel
\* that stays open, the chunks of each file are emitted, and lie on the channel,
\* in ascending index order; every hand-off is byte-for-byte the source file of
\* its id; no id is handed off twice, and once nothing is in flight every named
\* id has been handed off.
C27_ConcurrentFiles ==
    \A p \in Requesters :
        Len(requested) <= 1
        => LET q == Other(p)
           IN /\ \A t \in 1..Len(tasks[q]) :
                     \A k \in 1..Len(ChunksOf(tasks[q][t])) :
                         ChunksOf(tasks[q][t])[k].chunkIndex = k - 1
              /\ \A c \in 1..Len(conns) :
                     LET inbox == conns[c][p].inbox
                     IN \A i, j \in 1..Len(inbox) :
                            (/\ i < j
                             /\ inbox[i].type = "fileChunk"
                             /\ inbox[j].type = "fileChunk"
                             /\ inbox[i].fileId = inbox[j].fileId)
                            => inbox[i].chunkIndex < inbox[j].chunkIndex
              /\ \A i \in 1..Len(sink[p]) :
                     \E t \in 1..Len(tasks[q]) :
                         /\ tasks[q][t].fileId = sink[p][i].fileId
                         /\ sink[p][i].data = tasks[q][t].file.data
                         /\ sink[p][i].name = tasks[q][t].file.name
              /\ \A fileId \in 1..MaxFiles :
                     /\ HandOffs(p, fileId) <= Named(requested, p, fileId)
                     /\ Quiescent => HandOffs(p, fileId) = Named(requested, p, fileId)
\* One accept named two three-chunk files; the loops ran interleaved, and the
\* file named second was handed off before the file named first.
C27_Witness ==
    \E p \in Requesters :
        /\ requested = <<<<p, <<1, 2>>>>>>
        /\ Quiescent
        /\ Len(sink[p]) = 2
        /\ sink[p][1].fileId = 2
        /\ sink[p][2].fileId = 1
        /\ \A t \in 1..2 : Len(ChunksOf(tasks[Other(p)][t])) = 3
\* C28 (as claimed): once the connection a transfer started on (the one its
\* fileStart was sent on) is closed at either end, no fileChunk of that transfer
\* is put on another connection.
C28_LossHaltsTransfers ==
    \A c \in 1..Len(conns) : \A p \in Peers :
        \A i \in 1..Len(conns[c][p].inbox) :
            LET message == conns[c][p].inbox[i]
                via == tasks[message.task[1]][message.task[2]].via
            IN (/\ message.type = "fileChunk"
                /\ via # NoConn
                /\ \E q \in Peers : conns[via][q].state = "closed")
               => via = c
\* C29: a send attempted while connectionRef names no connection, or one that is
\* not open, is dropped.  For the three senders that do not test the channel
\* themselves (the onload of a send loop, requestFiles, the fileStart of case
\* 'accept'): nothing is put on any channel and the status, the remote identity,
\* the catalogs, the registry, the receiver states, the sink and connectionRef
\* are unchanged; a channel changes only by the handled message leaving it.
C29_ClosedSendDropped ==
    [][\A p \in Peers :
          ~IsOpen(conns, connectionRef[p], p)
          => /\ \A t \in 1..Len(tasks[p]) :
                    ChunkLoaded(p, t)
                    => /\ conns' = conns
                       /\ UNCHANGED <<status, remotePeerId, offeredFiles, filesMap,
                                      remoteFiles, downloadingFiles, sink,
                                      connectionRef>>
             /\ \A ids \in Selections(IdsOf(remoteFiles[p])) :
                    requestFiles(p, ids)
                    => /\ conns' = conns
                       /\ UNCHANGED <<status, remotePeerId, offeredFiles, filesMap,
                                      remoteFiles, downloadingFiles, sink, tasks,
                                      connectionRef>>
             /\ \A c \in 1..Len(conns) :
                    (/\ conns[c][p].inbox # <<>>
                     /\ Head(conns[c][p].inbox).type = "accept"
                     /\ ConnData(c, p))
                    => /\ conns' = [conns EXCEPT ![c][p].inbox = Tail(@)]
                       /\ UNCHANGED <<status, remotePeerId, offeredFiles, filesMap,
                                      remoteFiles, downloadingFiles, sink,
                                      connectionRef>>]_vars
\* A send loop has finished at a peer whose connection is closed, the other end
\* is still open with nothing left to handle, and the receiver holds fewer chunks
\* than the loop has emitted: the rest was dropped.
C29_Witness ==
    \E p \in Peers : \E t \in 1..Len(tasks[p]) :
        LET task == tasks[p][t]
            q == Other(p)
        IN /\ task.phase = "done"
           /\ task.via # NoConn
           /\ connectionRef[p] = NoConn
           /\ conns[task.via][p].state = "closed"
           /\ conns[task.via][q].state = "open"
           /\ conns[task.via][q].inbox = <<>>
           /\ Len(conns) = 1
           /\ task.fileId \in DOMAIN downloadingFiles[q]
           /\ downloadingFiles[q][task.fileId].receivedChunks < Len(ChunksOf(task))
           /\ sink[q] = <<>>
\* C30: a send loop has one position: it is reading one chunk, waiting for the
\* inter-chunk timer, or done.  While it reads chunk k, exactly the chunks
\* 0..k-1 have been handed to the channel; a step that hands a chunk over leaves
\* no read outstanding (the loop waits for its timer or is done); and a read
\* starts only in the step of the timer, after the chunk before it was sent.
C30_OneReadOutstanding ==
    /\ [](\A p \in Peers : \A t \in 1..Len(tasks[p]) :
             LET task == tasks[p][t]
             IN /\ task.phase \in {"reading", "waiting", "done"}
                /\ task.phase \in {"reading", "waiting"}
                       => /\ Len(ChunksOf(task)) = task.chunkIndex
                          /\ task.offset = task.chunkIndex * CHUNK_SIZE(p))
    /\ [][\A p \in Peers : \A t \in 1..Len(tasks[p]) :
             /\ Len(tasks'[p][t].sent) > Len(tasks[p][t].sent)
                    => /\ tasks[p][t].phase = "reading"
                       /\ tasks'[p][t].phase \in {"waiting", "done"}
                       /\ Len(tasks'[p][t].sent) = Len(tasks[p][t].sent) + 1
             /\ (tasks[p][t].phase # "reading" /\ tasks'[p][t].phase = "reading")
                    => /\ sendNextChunk(p, t)
                       /\ tasks[p][t].phase = "waiting"
                       /\ Len(ChunksOf(tasks[p][t])) = tasks'[p][t].chunkIndex]_vars
\* A three-chunk loop is reading its third chunk with two chunks handed over.
C30_Witness ==
    \E p \in Peers : \E t \in 1..Len(tasks[p]) :
        /\ tasks[p][t].phase = "reading"
        /\ tasks[p][t].chunkIndex = 2
        /\ Len(ChunksOf(tasks[p][t])) = 2
\* C31 (as claimed): the chunked engine answers an accept with fileStart and
\* fileChunk messages only, and handling a fileContent message hands nothing to
\* the sink.
C31_OneTransferContract ==
    /\ [](\A p \in Peers : \A t \in 1..Len(tasks[p]) :
             \A k \in 1..Len(tasks[p][t].sent) :
                 tasks[p][t].sent[k].type = IF k = 1 THEN "fileStart" ELSE "fileChunk")
    /\ [][\A p \in Peers : \A c \in 1..Len(conns) :
             (/\ conns[c][p].inbox # <<>>
              /\ Head(conns[c][p].inbox).type = "fileContent"
              /\ ConnData(c, p))
             => sink' = sink]_vars
\* C32: when the identity is issued, a locator that names another peer makes
\* exactly one new connection, set up at the peer (pending, timer armed, named by
\* connectionRef, status Connecting), every other connection as it was; with no
\* locator, or one that equals the identity issued, no connection is made and
\* the status is and stays Disconnected.
C32_SessionLocator ==
    [][\A p \in Peers : \A connectTo \in Peers \cup {Null} :
          PeerOpen(p, connectTo)
          => /\ peerId'[p] = p
             /\ IF connectTo # Null /\ connectTo # peerId'[p]
                THEN /\ Len(conns') = Len(conns) + 1
                     /\ SubSeq(conns', 1, Len(conns)) = conns
                     /\ conns'[Len(conns')][p].state = "pending"
                     /\ conns'[Len(conns')][p].timer
                     /\ conns'[Len(conns')][Other(p)].state = "none"
                     /\ connectionRef'[p] = Len(conns')
                     /\ status'[p] = "connecting"
                ELSE /\ conns' = conns
                     /\ connectionRef'[p] = NoConn
                     /\ status[p] = "disconnected"
                     /\ status'[p] = "disconnected"]_vars
\* One peer started with a locator naming the other and is connected to it; the
\* other started with no locator or its own identity: it never requested a
\* channel, the only connection is the one that came in.
C32_Witness ==
    \E p \in Peers :
        LET q == Other(p)
        IN /\ peerId[p] = p
           /\ peerId[q] = q
           /\ Len(conns) = 1
           /\ conns[1][p].state = "open"
           /\ conns[1][q].state = "open"
           /\ status[p] = "connected"
           /\ status[q] = "connected"
           /\ greeted[p] = {1}
           /\ greeted[q] = {1}
\* C33 (as claimed): in every reachable state the status of a peer is Connected
\* exactly when connectionRef names a connection and that connection is open at
\* the peer.
C33_StatusAgrees ==
    \A p \in Peers : status[p] = "connected" <=> IsOpen(conns, connectionRef[p], p)

\* C34 (as claimed): connect with the own identity closes no connection and
\* leaves the channels, connectionRef, the status, the remote identity and the
\* remote catalog as they were.
C34_SelfConnectFrame ==
    [][\A p \in Peers :
          connectToPeer(p, peerId[p])
          => UNCHANGED <<conns, connectionRef, status, remotePeerId, remoteFiles>>]_vars

\* C35 (as claimed): in every receiver transfer state receivedChunks is the
\* number of filled slots and at most totalChunks, every filled slot has an index
\* in 0..totalChunks-1, and the array has the length fixed by fileStart.
C35_ReceiverStateShape ==
    \A p \in Peers : \A fileId \in DOMAIN downloadingFiles[p] :
        LET info == downloadingFiles[p][fileId]
        IN /\ info.receivedChunks = Cardinality(DOMAIN info.chunks.at)
           /\ info.receivedChunks <= info.totalChunks
           /\ DOMAIN info.chunks.at \subseteq 0..(info.totalChunks - 1)
           /\ info.chunks.len = info.totalChunks
====
